---------------------------- MODULE Spec2Model ----------------------------
(***************************************************************************)
(* A model of src/src/calculator.ts: calculateFinancials and the scenario  *)
(* evaluator calculateMetricsForPrice (disbursement scheduler, monthly     *)
(* ledger, IDC report, exit figures, multi-scenario sweep).                *)
(*                                                                         *)
(* Numbers.  The program computes with IEEE doubles.  Here an amount of    *)
(* money is an exact rational <<n, d>> (d > 0, lowest terms); months,      *)
(* percentages and counts are integers.  Rounding of doubles is therefore  *)
(* not modelled: every statement below is about the real-number value of   *)
(* the expression the code evaluates.  A JSON field is <<v>> (the number   *)
(* v) or <<>> (absent / undefined).                                        *)
(***************************************************************************)
EXTENDS Integers, Sequences, FiniteSets, TLC

VARIABLES
    data,               \* the ScenarioInput of the request (never written)
    pc,                 \* position in calculateFinancials / calculateMetricsForPrice
    phase,              \* "detail": the call of line 519; "sweep": a call of line 526
    targetExitPrice,    \* argument of the running calculateMetricsForPrice
    m,                  \* loop variable of the slab loop (222) / the ledger loop (271)
    idcSchedule,        \* line 197
    remainingLoan,      \* line 219
    monthlyLedger,      \* line 250
    cumDisb_Ledger,     \* line 263
    outBal_Ledger,      \* line 264
    activeSlabs_Ledger, \* line 265
    runningTotalIDC,    \* line 267
    runningTotalOutflow,\* line 268
    isFirstIDCPayment,  \* line 269
    minIDCEMI,          \* line 253
    maxIDCEMI,          \* line 254
    result,             \* the value the last calculateMetricsForPrice returned
    detailedBreakdown,  \* line 519
    priceIdx,           \* index into allPrices of the running map callback (525)
    multipleScenarios   \* line 525

vars == <<data, pc, phase, targetExitPrice, m, idcSchedule, remainingLoan,
          monthlyLedger, cumDisb_Ledger, outBal_Ledger, activeSlabs_Ledger,
          runningTotalIDC, runningTotalOutflow, isFirstIDCPayment, minIDCEMI,
          maxIDCEMI, result, detailedBreakdown, priceIdx, multipleScenarios>>

---------------------------------------------------------------------------
(* Exact arithmetic on numbers (JS +, -, *, /, Math.max, Math.floor).      *)

Abs(i) == IF i < 0 THEN -i ELSE i

RECURSIVE Gcd(_, _)
Gcd(a, b) == IF b = 0 THEN a ELSE Gcd(b, a % b)

Norm(n, d) ==
    LET s == IF d < 0 THEN -1 ELSE 1
        g == Gcd(Abs(n), Abs(d))
    IN  IF n = 0 THEN <<0, 1>> ELSE <<(s * n) \div g, (s * d) \div g>>

R(i) == <<i, 1>>
R0 == <<0, 1>>

RAdd(a, b) ==
    LET g == Gcd(a[2], b[2])
        l == (a[2] \div g) * b[2]
    IN  Norm(a[1] * (l \div a[2]) + b[1] * (l \div b[2]), l)

RNeg(a) == <<-a[1], a[2]>>
RSub(a, b) == RAdd(a, RNeg(b))

RMul(a, b) ==
    LET g1 == Gcd(Abs(a[1]), b[2])
        g2 == Gcd(Abs(b[1]), a[2])
    IN  IF a[1] = 0 \/ b[1] = 0 THEN R0
        ELSE <<(a[1] \div g1) * (b[1] \div g2), (a[2] \div g2) * (b[2] \div g1)>>

\* a / b for b # 0 (the code never divides by 0 on the inputs modelled)
RDiv(a, b) ==
    IF b[1] < 0 THEN RMul(a, <<-b[2], -b[1]>>) ELSE RMul(a, <<b[2], b[1]>>)

RLt(a, b) == RSub(a, b)[1] < 0
RLe(a, b) == RSub(a, b)[1] <= 0
RMax(a, b) == IF RLt(a, b) THEN b ELSE a

RECURSIVE Pow(_, _)
Pow(b, e) == IF e <= 0 THEN R(1) ELSE RMul(b, Pow(b, e - 1))

Max(i, j) == IF i < j THEN j ELSE i

---------------------------------------------------------------------------
(* JSON values and getSafeValue (lines 86-89).                             *)

Undefined == <<>>
Num(v) == <<v>>

\* '' / null / undefined / NaN become 0; a number is itself
getSafeValue(value) == IF value = Undefined THEN 0 ELSE value[1]

\* JS !value for a numeric field: undefined, NaN or 0
Falsy(value) == value = Undefined \/ value[1] = 0

---------------------------------------------------------------------------
(* Amortization primitives.                                                *)

\* lines 91-99; principal is a computed amount, annualRate and years are
\* raw assumption fields
calculateEMI(principal, annualRate, years) ==
    IF principal[1] = 0 THEN R0
    ELSE IF Falsy(years) \/ years[1] <= 0 THEN R0
    ELSE IF Falsy(annualRate) THEN RDiv(principal, R(years[1] * 12))
    ELSE LET monthlyRate == Norm(annualRate[1], 12 * 100)
             months == years[1] * 12
             growth == Pow(RAdd(R(1), monthlyRate), months)
         IN  RDiv(RMul(RMul(principal, monthlyRate), growth),
                  RSub(growth, R(1)))

\* lines 101-113; paymentsMade is an integer number of months
calculateOutstandingAfterPayments(principal, annualRate, years, paymentsMade) ==
    IF principal[1] = 0 THEN R0
    ELSE IF paymentsMade <= 0 THEN principal
    ELSE LET totalMonths == years[1] * 12 IN
         IF paymentsMade >= totalMonths THEN R0
         ELSE IF Falsy(annualRate)
              THEN RMax(R0, RSub(principal,
                        RMul(RDiv(principal, R(totalMonths)), R(paymentsMade))))
              ELSE LET monthlyRate == Norm(annualRate[1], 12 * 100)
                       g == RAdd(R(1), monthlyRate)
                       outstanding ==
                           RDiv(RMul(principal,
                                     RSub(Pow(g, totalMonths), Pow(g, paymentsMade))),
                                RSub(Pow(g, totalMonths), R(1)))
                   IN  RMax(R0, outstanding)

---------------------------------------------------------------------------
(* calculateMetricsForPrice, lines 134-217: what is computed from the      *)
(* scenario alone.  Each is a const of the function body.                  *)

assumptions == data.assumptions
selectedProperty == data.selectedProperty

propertySize == getSafeValue(selectedProperty.size)

totalHoldingMonths ==
    IF assumptions.holdingPeriodUnit = "months"
    THEN getSafeValue(assumptions.investmentPeriod)
    ELSE getSafeValue(assumptions.investmentPeriod) * 12

possessionMonths == getSafeValue(selectedProperty.possessionMonths)

totalCost == R(propertySize * getSafeValue(data.purchasePrice))

\* lines 155-169: <<homeLoanShare, personalLoan1Share, personalLoan2Share, downPaymentShare>>
Shares ==
    CASE data.paymentPlan = "clp"   -> <<80, 10, 10, 0>>
      [] data.paymentPlan = "20-80" -> <<80, 20, 0, 0>>
      [] data.paymentPlan = "40-60" -> <<60, 40, 0, 0>>
      [] data.paymentPlan = "rtm"   -> <<80, 20, 0, 0>>
      [] OTHER -> <<getSafeValue(assumptions.homeLoanShare),
                    getSafeValue(assumptions.personalLoan1Share),
                    getSafeValue(assumptions.personalLoan2Share),
                    getSafeValue(assumptions.downPaymentShare)>>

homeLoanShare == Shares[1]
personalLoan1Share == Shares[2]
personalLoan2Share == Shares[3]
downPaymentShare == Shares[4]

homeLoanAmount == RMul(totalCost, Norm(homeLoanShare, 100))
personalLoan1Amount == RMul(totalCost, Norm(personalLoan1Share, 100))
personalLoan2Amount == RMul(totalCost, Norm(personalLoan2Share, 100))
downPaymentAmount == RMul(totalCost, Norm(downPaymentShare, 100))

homeLoanEMI ==
    calculateEMI(homeLoanAmount, assumptions.homeLoanRate, assumptions.homeLoanTerm)
personalLoan1EMI ==
    calculateEMI(personalLoan1Amount, assumptions.personalLoan1Rate,
                 assumptions.personalLoan1Term)
personalLoan2EMI ==
    calculateEMI(personalLoan2Amount, assumptions.personalLoan2Rate,
                 assumptions.personalLoan2Term)

\* line 181: homeLoanStartMode || 'default'
hlMode ==
    IF assumptions.homeLoanStartMode = "" THEN "default"
    ELSE assumptions.homeLoanStartMode
hlInputValue == getSafeValue(assumptions.homeLoanStartMonth)

explicitLast == getSafeValue(assumptions.lastBankDisbursementMonth)
constructionEnd == getSafeValue(assumptions.clpDurationYears) * 12
FallbackDemandMonth == 24
lastDemandMonth ==
    IF explicitLast > 0 THEN explicitLast
    ELSE IF constructionEnd > 0 THEN constructionEnd
    ELSE IF possessionMonths # 0 THEN possessionMonths ELSE FallbackDemandMonth

\* a default start month without the month after the last disbursement
realHomeLoanStartMonthNoGap ==
    IF hlMode = "manual" THEN hlInputValue ELSE lastDemandMonth + hlInputValue

\* lines 189-194
realHomeLoanStartMonth ==
    IF hlMode = "manual" THEN hlInputValue ELSE lastDemandMonth + hlInputValue + 1
idcCutoffMonth == realHomeLoanStartMonth - 1

DefaultDisbursementStart == 1
DefaultInterval == 3
\* lines 203-208
startMonth ==
    IF hlMode = "manual" /\ assumptions.bankDisbursementStartMonth = Num(0)
    THEN 0
    ELSE IF getSafeValue(assumptions.bankDisbursementStartMonth) # 0
         THEN getSafeValue(assumptions.bankDisbursementStartMonth)
         ELSE DefaultDisbursementStart
\* line 210
interval ==
    IF getSafeValue(assumptions.bankDisbursementInterval) # 0
    THEN getSafeValue(assumptions.bankDisbursementInterval)
    ELSE DefaultInterval
fundingEndMonth == lastDemandMonth

\* Math.floor(a / b) for integers a, b with b # 0
FloorDiv(a, b) == IF b > 0 THEN a \div b ELSE (-a) \div (-b)

\* the number of whole intervals between the start and the end month, which
\* leaves out the slab released at the start month itself
calculatedSlabsNoPlusOne == FloorDiv(fundingEndMonth - startMonth, interval)

\* lines 215-217
calculatedSlabs == FloorDiv(fundingEndMonth - startMonth, interval) + 1
numberOfSlabs == Max(1, calculatedSlabs)
slabAmount == RDiv(homeLoanAmount, R(numberOfSlabs))

hlRate == getSafeValue(assumptions.homeLoanRate)
effectivePL1Start == getSafeValue(assumptions.personalLoan1StartMonth)
tableEndMonth == possessionMonths

---------------------------------------------------------------------------
(* Sequence helpers (Array.prototype.find / reduce / sort, Set).           *)

RECURSIVE SumOver(_, _)
\* reduce((sum, x) => sum + f[x], 0) over the amounts in seq
SumOver(seq, i) == IF i = 0 THEN R0 ELSE RAdd(SumOver(seq, i - 1), seq[i])

\* a lookup that takes every slab already released
SlabMatchesReleased(s, month) == s.releaseMonth <= month

\* line 277: the predicate of idcSchedule.find
SlabMatches(s, month) == s.releaseMonth = month

\* index of the first slab find() returns, 0 when it returns undefined
FindSlab(sched, month) ==
    LET hits == {i \in 1..Len(sched) : SlabMatches(sched[i], month)}
    IN  IF hits = {} THEN 0 ELSE CHOOSE i \in hits : \A j \in hits : i <= j

\* the price list taken as it is, repeats included
NoDedupe(seq) == seq

RECURSIVE Dedupe(_)
\* new Set(seq), in insertion order (first occurrence kept)
Dedupe(seq) ==
    IF seq = <<>> THEN <<>>
    ELSE LET init == Dedupe(SubSeq(seq, 1, Len(seq) - 1))
             last == seq[Len(seq)]
         IN  IF \E i \in 1..Len(init) : init[i] = last THEN init
             ELSE Append(init, last)

RECURSIVE SortAsc(_)
\* sort((a, b) => a - b)
SortAsc(seq) ==
    IF seq = <<>> THEN <<>>
    ELSE LET lo == CHOOSE i \in 1..Len(seq) : \A j \in 1..Len(seq) : seq[i] <= seq[j]
             rest == [k \in 1..(Len(seq) - 1) |-> IF k < lo THEN seq[k] ELSE seq[k + 1]]
         IN  <<seq[lo]>> \o SortAsc(rest)

\* lines 520-523
allPrices == SortAsc(Dedupe(<<data.selectedExitPrice>> \o data.scenarioExitPrices))

---------------------------------------------------------------------------
(* calculateMetricsForPrice as a state machine.                            *)

\* a ledger kept across calls (what a module-level array would do)
StaleLedger == monthlyLedger

\* line 197 / line 250: the arrays every call starts from
FreshSchedule == <<>>
FreshLedger == <<>>

\* the price the pending call is made with (line 519 / line 526)
CallPrice ==
    IF phase = "detail" THEN data.selectedExitPrice ELSE allPrices[priceIdx]

\* lines 133-219 and 250-269: entry, locals initialised
Enter ==
    /\ pc = "call"
    /\ targetExitPrice' = CallPrice
    /\ idcSchedule' = FreshSchedule
    /\ monthlyLedger' = FreshLedger
    /\ remainingLoan' = homeLoanAmount
    /\ m' = IF RLt(R0, homeLoanAmount) THEN startMonth ELSE 0
    /\ cumDisb_Ledger' = R0
    /\ outBal_Ledger' = R0
    /\ activeSlabs_Ledger' = 0
    /\ runningTotalIDC' = R0
    /\ runningTotalOutflow' = R0
    /\ isFirstIDCPayment' = FALSE
    /\ minIDCEMI' = R0
    /\ maxIDCEMI' = R0
    /\ pc' = IF RLt(R0, homeLoanAmount) THEN "slabs" ELSE "finish"
    /\ UNCHANGED <<data, phase, result, detailedBreakdown, priceIdx, multipleScenarios>>

\* a loop that stops one month short of the funding end
SlabLoopCondExclusive == m < fundingEndMonth

\* line 222: the for condition
SlabLoopCond == m <= fundingEndMonth

\* a slab loop that never breaks on an exhausted loan
SlabBreakNever == FALSE

\* line 223: the break
SlabBreak == RLe(remainingLoan, R(1))

RoundingSlack == 10
\* lines 225-229
ThisSlab ==
    IF (m + interval > fundingEndMonth)
       \/ RLt(RSub(remainingLoan, slabAmount), R(RoundingSlack))
    THEN remainingLoan ELSE slabAmount

\* lines 222-239: one iteration of the slab loop
SlabStep ==
    /\ pc = "slabs"
    /\ SlabLoopCond
    /\ ~SlabBreak
    /\ idcSchedule' = Append(idcSchedule,
                             [slabNo |-> Len(idcSchedule) + 1,
                              releaseMonth |-> m,
                              amount |-> ThisSlab,
                              interestCost |-> R0])
    /\ remainingLoan' = RSub(remainingLoan, ThisSlab)
    /\ m' = m + interval
    /\ UNCHANGED <<data, pc, phase, targetExitPrice, monthlyLedger, cumDisb_Ledger,
                   outBal_Ledger, activeSlabs_Ledger, runningTotalIDC,
                   runningTotalOutflow, isFirstIDCPayment, minIDCEMI, maxIDCEMI,
                   result, detailedBreakdown, priceIdx, multipleScenarios>>

\* lines 222-223 (loop exit) and 241-244 (failsafe), then line 271's m = 0
SlabsDone ==
    /\ pc = "slabs"
    /\ (~SlabLoopCond \/ SlabBreak)
    /\ idcSchedule' =
         IF Len(idcSchedule) = 0
         THEN <<[slabNo |-> 1, releaseMonth |-> startMonth,
                 amount |-> homeLoanAmount, interestCost |-> R0]>>
         ELSE idcSchedule
    /\ m' = 0
    /\ pc' = "ledger"
    /\ UNCHANGED <<data, phase, targetExitPrice, remainingLoan, monthlyLedger,
                   cumDisb_Ledger, outBal_Ledger, activeSlabs_Ledger, runningTotalIDC,
                   runningTotalOutflow, isFirstIDCPayment, minIDCEMI, maxIDCEMI,
                   result, detailedBreakdown, priceIdx, multipleScenarios>>

\* a ledger loop that leaves out the possession month
LedgerLoopCondExclusive == m < tableEndMonth

\* line 271: the for condition
LedgerLoopCond == m <= tableEndMonth

\* a row that records the running balance as it is
RecordedBalanceUnclamped(bal) == bal

\* line 338: the balance a row records
RecordedBalance(bal) == RMax(R0, bal)

\* line 301
InFullEMI(month) == month >= realHomeLoanStartMonth

\* a pre-EMI payment of the month's interest in either start mode
PreEmiPaymentAlwaysInterest(interestForThisMonth) == interestForThisMonth

\* lines 309-320: the home-loan payment of a pre-EMI month
PreEmiPayment(interestForThisMonth) ==
    IF hlMode = "manual" THEN R0 ELSE interestForThisMonth

\* lines 271-346: one iteration of the ledger loop
LedgerStep ==
    /\ pc = "ledger"
    /\ LedgerLoopCond
    /\ LET idx == FindSlab(idcSchedule, m)
           found == idx # 0
           currentDisbursement == IF found THEN idcSchedule[idx].amount ELSE R0
           cum1 == IF found THEN RAdd(cumDisb_Ledger, currentDisbursement)
                   ELSE cumDisb_Ledger
           bal1 == IF ~found THEN outBal_Ledger
                   ELSE IF hlMode = "manual" THEN RAdd(outBal_Ledger, currentDisbursement)
                   ELSE IF m < realHomeLoanStartMonth THEN cum1
                   ELSE RAdd(outBal_Ledger, currentDisbursement)
           interestForThisMonth ==
               IF RLt(R0, bal1) THEN RDiv(RMul(bal1, Norm(hlRate, 100)), R(12)) ELSE R0
           isFullEMI == InFullEMI(m)
           hlPayment == IF isFullEMI THEN homeLoanEMI
                        ELSE PreEmiPayment(interestForThisMonth)
           principalRepaidThisMonth ==
               IF isFullEMI /\ RLt(R0, bal1)
               THEN RMax(R0, RSub(hlPayment, interestForThisMonth)) ELSE R0
           bal2 == RSub(bal1, principalRepaidThisMonth)
           idcPaid == ~isFullEMI /\ RLt(R0, hlPayment)
           currentPL1 == IF m >= effectivePL1Start THEN personalLoan1EMI ELSE R0
           totalRowOutflow == RAdd(hlPayment, currentPL1)
       IN  /\ cumDisb_Ledger' = cum1
           /\ outBal_Ledger' = bal2
           /\ activeSlabs_Ledger' = IF found THEN activeSlabs_Ledger + 1
                                    ELSE activeSlabs_Ledger
           /\ runningTotalIDC' =
                IF ~isFullEMI /\ hlMode # "manual"
                THEN RAdd(runningTotalIDC, interestForThisMonth) ELSE runningTotalIDC
           /\ minIDCEMI' = IF idcPaid /\ ~isFirstIDCPayment THEN hlPayment ELSE minIDCEMI
           /\ isFirstIDCPayment' = (isFirstIDCPayment \/ idcPaid)
           /\ maxIDCEMI' = IF idcPaid THEN hlPayment ELSE maxIDCEMI
           /\ runningTotalOutflow' =
                IF m <= possessionMonths THEN RAdd(runningTotalOutflow, totalRowOutflow)
                ELSE runningTotalOutflow
           /\ monthlyLedger' = Append(monthlyLedger,
                [month |-> m,
                 disbursement |-> currentDisbursement,
                 activeSlabs |-> IF m > lastDemandMonth THEN "Max"
                                 ELSE ToString(IF found THEN activeSlabs_Ledger + 1
                                               ELSE activeSlabs_Ledger),
                 cumulativeDisbursement |-> cum1,
                 outstandingBalance |-> RecordedBalance(bal2),
                 hlComponent |-> hlPayment,
                 interestPart |-> interestForThisMonth,
                 principalPart |-> principalRepaidThisMonth,
                 isFullEMI |-> isFullEMI,
                 pl1 |-> currentPL1,
                 totalOutflow |-> totalRowOutflow])
    /\ m' = m + 1
    /\ UNCHANGED <<data, pc, phase, targetExitPrice, idcSchedule, remainingLoan,
                   result, detailedBreakdown, priceIdx, multipleScenarios>>

\* line 271 (loop exit)
LedgerDone ==
    /\ pc = "ledger"
    /\ ~LedgerLoopCond
    /\ pc' = "finish"
    /\ UNCHANGED <<data, phase, targetExitPrice, m, idcSchedule, remainingLoan,
                   monthlyLedger, cumDisb_Ledger, outBal_Ledger, activeSlabs_Ledger,
                   runningTotalIDC, runningTotalOutflow, isFirstIDCPayment, minIDCEMI,
                   maxIDCEMI, result, detailedBreakdown, priceIdx, multipleScenarios>>

---------------------------------------------------------------------------
(* Lines 348-513: totals, exit figures, IDC report, the returned object.   *)

\* lines 360-361 (the start months are read raw)
pl1PaymentsMade == Max(0, totalHoldingMonths - assumptions.personalLoan1StartMonth[1])
pl2PaymentsMade ==
    Max(0, totalHoldingMonths - (possessionMonths + assumptions.personalLoan2StartMonth[1]))

\* line 364: monthlyLedger[totalHoldingMonths] || monthlyLedger[length - 1];
\* the 1-based index of the row, 0 when both are undefined
\* the last row of the ledger, whatever the holding period is
FinalLedgerRowIndexLast == Len(monthlyLedger)

FinalLedgerRowIndex ==
    IF totalHoldingMonths >= 0 /\ totalHoldingMonths < Len(monthlyLedger)
    THEN totalHoldingMonths + 1
    ELSE Len(monthlyLedger)

\* line 365
homeLoanOutstanding ==
    IF FinalLedgerRowIndex = 0 THEN R0
    ELSE monthlyLedger[FinalLedgerRowIndex].outstandingBalance

\* lines 368-369
personalLoan1Outstanding ==
    IF RLt(R0, personalLoan1Amount)
    THEN calculateOutstandingAfterPayments(personalLoan1Amount,
             assumptions.personalLoan1Rate, assumptions.personalLoan1Term, pl1PaymentsMade)
    ELSE R0
personalLoan2Outstanding ==
    IF RLt(R0, personalLoan2Amount)
    THEN calculateOutstandingAfterPayments(personalLoan2Amount,
             assumptions.personalLoan2Rate, assumptions.personalLoan2Term, pl2PaymentsMade)
    ELSE R0

\* line 371
totalLoanOutstanding ==
    RAdd(RAdd(homeLoanOutstanding, personalLoan1Outstanding), personalLoan2Outstanding)

\* line 374
totalHLPaid_Ledger ==
    SumOver([i \in 1..Len(monthlyLedger) |-> monthlyLedger[i].hlComponent],
            Len(monthlyLedger))

\* line 375
totalEMIPaid ==
    RAdd(RAdd(totalHLPaid_Ledger, RMul(personalLoan1EMI, R(pl1PaymentsMade))),
         RMul(personalLoan2EMI, R(pl2PaymentsMade)))

\* lines 377-378
saleValue == R(propertySize * targetExitPrice)
leftoverCash == RSub(saleValue, totalLoanOutstanding)

\* a net profit that forgets the down payment
trueNetProfitNoDownPayment == RSub(leftoverCash, totalEMIPaid)

\* line 379
trueNetProfit == RSub(RSub(leftoverCash, totalEMIPaid), downPaymentAmount)

\* line 380
totalActualInvestment == RAdd(downPaymentAmount, totalEMIPaid)

\* line 381
roi ==
    IF RLt(R0, totalActualInvestment)
    THEN RMul(RDiv(trueNetProfit, totalActualInvestment), R(100))
    ELSE R0

\* lines 349, 354-355
totalIDC == runningTotalIDC
monthlyIDCEMI ==
    IF RLt(R0, homeLoanAmount)
    THEN RDiv(totalIDC, R(Max(1, idcCutoffMonth - idcSchedule[1].releaseMonth + 1)))
    ELSE R0

\* line 423
SlabMonthlyInterest(slab) == RDiv(RMul(slab.amount, Norm(hlRate, 100)), R(12))
\* line 429
SlabDuration(slab) == Max(0, idcCutoffMonth - slab.releaseMonth + 1)

\* lines 413-447: the schedule with its interest columns
AnnotatedSchedule ==
    [i \in 1..Len(idcSchedule) |->
        LET slab == idcSchedule[i]
            totalCostForSlab == RMul(SlabMonthlyInterest(slab), R(SlabDuration(slab)))
        IN  [slabNo |-> slab.slabNo,
             releaseMonth |-> slab.releaseMonth,
             amount |-> slab.amount,
             monthlyInterest |-> SlabMonthlyInterest(slab),
             duration |-> SlabDuration(slab),
             totalCostForSlab |-> totalCostForSlab,
             cumulativeMonthlyInterest |->
                 SumOver([k \in 1..Len(idcSchedule) |->
                             SlabMonthlyInterest(idcSchedule[k])], i),
             interestCost |-> totalCostForSlab]]

\* lines 450-456
idcReport ==
    [grandTotalInterest |-> totalIDC,
     minMonthlyInterest |-> minIDCEMI,
     maxMonthlyInterest |-> maxIDCEMI,
     schedule |-> AnnotatedSchedule,
     cutoffMonth |-> idcCutoffMonth]

\* lines 458-513: the fields of the returned object the properties read
Breakdown ==
    [propertySize |-> propertySize,
     totalCost |-> totalCost,
     totalLoanOutstanding |-> totalLoanOutstanding,
     homeLoanEMI |-> homeLoanEMI,
     personalLoan1EMI |-> personalLoan1EMI,
     personalLoan2EMI |-> personalLoan2EMI,
     homeLoanAmount |-> homeLoanAmount,
     personalLoan1Amount |-> personalLoan1Amount,
     personalLoan2Amount |-> personalLoan2Amount,
     downPaymentAmount |-> downPaymentAmount,
     homeLoanEMIPaid |-> totalHLPaid_Ledger,
     totalIDC |-> totalIDC,
     monthlyIDCEMI |-> monthlyIDCEMI,
     idcSchedule |-> AnnotatedSchedule,
     monthlyLedger |-> monthlyLedger,
     idcReport |-> idcReport,
     minIDCEMI |-> minIDCEMI,
     maxIDCEMI |-> maxIDCEMI,
     totalEMIPaid |-> totalEMIPaid,
     saleValue |-> saleValue,
     leftoverCash |-> leftoverCash,
     netGainLoss |-> trueNetProfit,
     roi |-> roi,
     exitPrice |-> targetExitPrice,
     prePossessionTotal |-> runningTotalOutflow,
     possessionMonths |-> possessionMonths,
     totalHoldingMonths |-> totalHoldingMonths,
     homeLoanStartMonth |-> realHomeLoanStartMonth,
     hasHomeLoan |-> RLt(R0, homeLoanAmount)]

\* lines 348-513: the rest of the function body, up to the return
Finish ==
    /\ pc = "finish"
    /\ result' = Breakdown
    /\ pc' = "return"
    /\ UNCHANGED <<data, phase, targetExitPrice, m, idcSchedule, remainingLoan,
                   monthlyLedger, cumDisb_Ledger, outBal_Ledger, activeSlabs_Ledger,
                   runningTotalIDC, runningTotalOutflow, isFirstIDCPayment, minIDCEMI,
                   maxIDCEMI, detailedBreakdown, priceIdx, multipleScenarios>>

---------------------------------------------------------------------------
(* calculateFinancials, lines 517-535.                                     *)

NoBreakdown == [exitPrice |-> 0, monthlyLedger |-> <<>>]

\* line 533
IsSelected(price) == price = data.selectedExitPrice

\* line 519: the first call returns; lines 520-525: the map starts
ReturnDetail ==
    /\ pc = "return"
    /\ phase = "detail"
    /\ detailedBreakdown' = result
    /\ phase' = "sweep"
    /\ priceIdx' = 1
    /\ pc' = "call"
    /\ UNCHANGED <<data, targetExitPrice, m, idcSchedule, remainingLoan,
                   monthlyLedger, cumDisb_Ledger, outBal_Ledger, activeSlabs_Ledger,
                   runningTotalIDC, runningTotalOutflow, isFirstIDCPayment, minIDCEMI,
                   maxIDCEMI, result, multipleScenarios>>

\* lines 526-534: a call of the map callback returns
ReturnSweep ==
    /\ pc = "return"
    /\ phase = "sweep"
    /\ multipleScenarios' = Append(multipleScenarios,
            [exitPrice |-> allPrices[priceIdx],
             saleValue |-> result.saleValue,
             netProfit |-> result.netGainLoss,
             roi |-> result.roi,
             leftoverCash |-> result.leftoverCash,
             isSelected |-> IsSelected(allPrices[priceIdx])])
    /\ priceIdx' = priceIdx + 1
    /\ pc' = IF priceIdx < Len(allPrices) THEN "call" ELSE "done"
    /\ UNCHANGED <<data, phase, targetExitPrice, m, idcSchedule, remainingLoan,
                   monthlyLedger, cumDisb_Ledger, outBal_Ledger, activeSlabs_Ledger,
                   runningTotalIDC, runningTotalOutflow, isFirstIDCPayment, minIDCEMI,
                   maxIDCEMI, result, detailedBreakdown>>

---------------------------------------------------------------------------
(* The requests explored.  Fields no property reads (stampDuty, GST,       *)
(* otherCharges, names) are left out of the scenario.                      *)

MaxPossession == 3
MaxExtraPrices == 3

ExitPrices == {90, 100, 120}

Scenario(price, plan, shares, mode, hlStart, rate, term, disbStart, disbInterval, last, clp, poss, period, unit, plRate, sel, extras) ==
    [purchasePrice |-> price,
     paymentPlan |-> plan,
     selectedExitPrice |-> sel,
     scenarioExitPrices |-> extras,
     selectedProperty |-> [size |-> Num(10), possessionMonths |-> poss],
     assumptions |->
        [homeLoanRate |-> rate,
         homeLoanTerm |-> term,
         homeLoanShare |-> Num(shares[1]),
         personalLoan1Share |-> Num(shares[2]),
         personalLoan2Share |-> Num(shares[3]),
         downPaymentShare |-> Num(shares[4]),
         homeLoanStartMonth |-> hlStart,
         homeLoanStartMode |-> mode,
         personalLoan1Rate |-> plRate,
         personalLoan1Term |-> Num(1),
         personalLoan1StartMonth |-> Num(1),
         personalLoan2Rate |-> Num(1200),
         personalLoan2Term |-> Num(1),
         personalLoan2StartMonth |-> Num(1),
         investmentPeriod |-> period,
         holdingPeriodUnit |-> unit,
         clpDurationYears |-> clp,
         bankDisbursementStartMonth |-> disbStart,
         bankDisbursementInterval |-> disbInterval,
         lastBankDisbursementMonth |-> last]]

\* funding window, start mode, rate and term vary; plan and prices fixed
FundingScenarios ==
    {Scenario(price, "20-80", <<0, 0, 0, 0>>, mode, Num(hlStart), rt[1], rt[2],
              disbStart, Num(disbInterval), Num(last), Num(0), Num(poss),
              Num(2), "months", Num(0), 100, <<>>) :
        price \in {Num(100), Num(3)},
        mode \in {"manual", "default"},
        hlStart \in 0..2,
        rt \in {<<Num(0), Num(1)>>, <<Num(1200), Num(1)>>,
                <<Num(1200), Num(0)>>, <<Undefined, Undefined>>},
        disbStart \in {Undefined, Num(0), Num(1), Num(2)},
        disbInterval \in {-1, 0, 1, 2},
        last \in {0, 1, 3},
        poss \in 0..MaxPossession}

\* payment plan, shares, purchase price and holding period vary
PlanScenarios ==
    {Scenario(price, ps[1], ps[2], mode, Num(1), Num(1200), Num(1),
              Num(1), Num(1), Num(2), clp, poss, pu[1], pu[2], plRate, 120, <<100>>) :
        price \in {Num(-100), Num(0), Undefined, Num(100), Num(1)},
        ps \in {<<"clp", <<0, 0, 0, 0>>>>, <<"20-80", <<0, 0, 0, 0>>>>,
                <<"40-60", <<0, 0, 0, 0>>>>, <<"rtm", <<0, 0, 0, 0>>>>,
                <<"custom", <<50, 20, 10, 20>>>>, <<"custom", <<0, 0, 0, 100>>>>,
                <<"custom", <<0, 0, 0, 0>>>>},
        mode \in {"manual", "default", ""},
        clp \in {Num(0), Num(1)},
        poss \in {Undefined, Num(MaxPossession)},
        pu \in {<<Num(2), "months">>, <<Num(6), "months">>, <<Num(1), "years">>,
                <<Undefined, "years">>},
        plRate \in {Num(0), Num(1200)}}

RECURSIVE SeqsUpTo(_, _)
\* the sequences over S of length at most n
SeqsUpTo(S, n) ==
    IF n = 0 THEN {<<>>}
    ELSE SeqsUpTo(S, n - 1)
         \cup {Append(q, x) : q \in {t \in SeqsUpTo(S, n - 1) : Len(t) = n - 1}, x \in S}

\* the selected and the additional exit prices vary
SweepScenarios ==
    {Scenario(Num(100), "20-80", <<0, 0, 0, 0>>, "default", Num(0), Num(1200), Num(1),
              Num(1), Num(1), Num(2), Num(0), Num(MaxPossession),
              Num(2), "months", Num(0), sel, extras) :
        sel \in ExitPrices, extras \in SeqsUpTo(ExitPrices, MaxExtraPrices)}

Scenarios == FundingScenarios \cup PlanScenarios \cup SweepScenarios

\* a request has arrived; calculateFinancials is about to make the call of line 519
Init ==
    /\ data \in Scenarios
    /\ pc = "call"
    /\ phase = "detail"
    /\ targetExitPrice = 0
    /\ m = 0
    /\ idcSchedule = <<>>
    /\ remainingLoan = R0
    /\ monthlyLedger = <<>>
    /\ cumDisb_Ledger = R0
    /\ outBal_Ledger = R0
    /\ activeSlabs_Ledger = 0
    /\ runningTotalIDC = R0
    /\ runningTotalOutflow = R0
    /\ isFirstIDCPayment = FALSE
    /\ minIDCEMI = R0
    /\ maxIDCEMI = R0
    /\ result = NoBreakdown
    /\ detailedBreakdown = NoBreakdown
    /\ priceIdx = 0
    /\ multipleScenarios = <<>>

Next ==
    \/ Enter
    \/ SlabStep
    \/ SlabsDone
    \/ LedgerStep
    \/ LedgerDone
    \/ Finish
    \/ ReturnDetail
    \/ ReturnSweep

Spec == Init /\ [][Next]_vars

---------------------------------------------------------------------------
(* Properties.                                                             *)

Rows == 1..Len(monthlyLedger)
hasHomeLoan == RLt(R0, homeLoanAmount)
\* the slab loop and its failsafe are over for the running evaluation
ScheduleBuilt == pc \in {"ledger", "finish", "return"}
ScheduleTotal ==
    SumOver([i \in 1..Len(idcSchedule) |-> idcSchedule[i].amount], Len(idcSchedule))

\* C1: with a home-loan amount > 0 and a funding end month >= the start
\* month, the amounts of the slabs the scheduler produced sum exactly to the
\* home-loan amount, and nothing is left to disburse after the last slab.
C1_SlabsSumToLoan ==
    (ScheduleBuilt /\ hasHomeLoan /\ fundingEndMonth >= startMonth)
        => /\ ScheduleTotal = homeLoanAmount
           /\ idcSchedule[Len(idcSchedule)].amount =
                RSub(homeLoanAmount,
                     SumOver([i \in 1..Len(idcSchedule) |-> idcSchedule[i].amount],
                             Len(idcSchedule) - 1))

\* C1 witness: three slabs of an amount that does not divide evenly
C1_Witness ==
    /\ ScheduleBuilt /\ hasHomeLoan /\ fundingEndMonth >= startMonth
    /\ Len(idcSchedule) = 3
    /\ slabAmount[2] # 1
    /\ ScheduleTotal = homeLoanAmount

\* C2: in every ledger row the cumulative disbursement is at most the
\* home-loan amount, and it never decreases from one row to the next.
C2_CumulativeBounded ==
    /\ \A i \in Rows : RLe(monthlyLedger[i].cumulativeDisbursement, homeLoanAmount)
    /\ \A i \in Rows : i > 1 =>
          RLe(monthlyLedger[i - 1].cumulativeDisbursement,
              monthlyLedger[i].cumulativeDisbursement)

\* C2 witness: a ledger that went from nothing, through a part, to the whole loan
C2_Witness ==
    /\ Len(monthlyLedger) >= 3
    /\ monthlyLedger[1].cumulativeDisbursement = R0
    /\ \E i \in Rows : /\ RLt(R0, monthlyLedger[i].cumulativeDisbursement)
                       /\ RLt(monthlyLedger[i].cumulativeDisbursement, homeLoanAmount)
    /\ monthlyLedger[Len(monthlyLedger)].cumulativeDisbursement = homeLoanAmount

\* C3: with a home-loan amount > 0, in either start mode, the outstanding
\* balance recorded in every ledger row is >= 0.
C3_BalanceNonNegative ==
    hasHomeLoan => \A i \in Rows : RLe(R0, monthlyLedger[i].outstandingBalance)

\* C3 witness: a full-EMI month whose principal part exceeded the balance owed
\* (the running balance went below 0) and whose row records 0
C3_Witness ==
    /\ hasHomeLoan
    /\ Len(monthlyLedger) > 0
    /\ RLt(outBal_Ledger, R0)
    /\ RLt(R0, monthlyLedger[Len(monthlyLedger)].principalPart)
    /\ monthlyLedger[Len(monthlyLedger)].outstandingBalance = R0

\* an evaluation has just returned its breakdown in result
Returned == pc = "return"
ResultRows == 1..Len(result.monthlyLedger)

\* C4 as stated: for every evaluation the ledger has one row per month
\* 0..possessionMonths, row i holding month i, so its length is possession
\* month + 1 and the month-0 row is present.
C4_Original ==
    Returned =>
        /\ Len(result.monthlyLedger) = possessionMonths + 1
        /\ \A i \in ResultRows : result.monthlyLedger[i].month = i - 1
        /\ result.monthlyLedger[1].month = 0

\* C4 amended: for every evaluation with a home-loan amount > 0 (and a whole,
\* non-negative possession month) the ledger has one row per month
\* 0..possessionMonths, row i holding month i; with a home-loan amount <= 0 the
\* ledger is empty.  While the ledger is being built its rows are months 0, 1, ...
C4_LedgerDense ==
    /\ \A i \in Rows : monthlyLedger[i].month = i - 1
    /\ Returned =>
          IF hasHomeLoan
          THEN /\ Len(result.monthlyLedger) = possessionMonths + 1
               /\ \A i \in ResultRows : result.monthlyLedger[i].month = i - 1
               /\ result.monthlyLedger[1].month = 0
          ELSE result.monthlyLedger = <<>>

\* C4 witness: a returned ledger of several months
C4_Witness ==
    /\ Returned /\ hasHomeLoan
    /\ possessionMonths >= 2
    /\ Len(result.monthlyLedger) = possessionMonths + 1

InputPrices ==
    {data.selectedExitPrice}
        \cup {data.scenarioExitPrices[i] : i \in 1..Len(data.scenarioExitPrices)}
SweepRows == 1..Len(multipleScenarios)

\* C5: the sweep calculateFinancials returns holds each distinct input price
\* once, in ascending exit-price order, and exactly one entry is selected: the
\* one whose exitPrice is the selected exit price.
C5_SweepSortedOneSelected ==
    /\ \A i, j \in SweepRows :
          i < j => multipleScenarios[i].exitPrice < multipleScenarios[j].exitPrice
    /\ \A i \in SweepRows :
          /\ multipleScenarios[i].exitPrice \in InputPrices
          /\ multipleScenarios[i].isSelected
               <=> (multipleScenarios[i].exitPrice = data.selectedExitPrice)
    /\ pc = "done" =>
          /\ {multipleScenarios[i].exitPrice : i \in SweepRows} = InputPrices
          /\ Len(multipleScenarios) = Cardinality(InputPrices)
          /\ Cardinality({i \in SweepRows : multipleScenarios[i].isSelected}) = 1

\* C5 witness: the additional prices repeat the selected price and each other,
\* and the sweep has two entries
C5_Witness ==
    /\ pc = "done"
    /\ \E i \in 1..Len(data.scenarioExitPrices) :
          data.scenarioExitPrices[i] = data.selectedExitPrice
    /\ Len(data.scenarioExitPrices) > Cardinality(InputPrices) - 1
    /\ Len(multipleScenarios) = 2

ResultInvestment == RAdd(result.downPaymentAmount, result.totalEMIPaid)
ResultNetFormula ==
    RSub(RSub(RSub(result.saleValue, result.totalLoanOutstanding),
              result.totalEMIPaid), result.downPaymentAmount)
ResultRoiFormula == RMul(RDiv(result.netGainLoss, ResultInvestment), R(100))
ZeroPriceResult ==
    /\ result.totalCost = R0
    /\ result.homeLoanAmount = R0
    /\ result.personalLoan1Amount = R0
    /\ result.personalLoan2Amount = R0
    /\ result.downPaymentAmount = R0
    /\ result.monthlyLedger = <<>>
    /\ result.roi = R0

\* C6 as stated: net profit = sale value - total outstanding debt - total EMI
\* paid - down payment; roi = netProfit / (downPayment + totalEMIPaid) * 100
\* when that denominator is non-zero and 0 when it is 0; purchasePrice = 0
\* gives totalCost 0, the four financing amounts 0, an empty ledger and roi 0.
C6_Original ==
    Returned =>
        /\ result.netGainLoss = ResultNetFormula
        /\ ResultInvestment # R0 => result.roi = ResultRoiFormula
        /\ ResultInvestment = R0 => result.roi = R0
        /\ getSafeValue(data.purchasePrice) = 0 => ZeroPriceResult

\* C6 amended: as stated, except that roi is the quotient only when the
\* denominator downPayment + totalEMIPaid is > 0, and roi = 0 whenever the
\* denominator is <= 0 (zero or negative).
C6_ProfitAndRoi ==
    Returned =>
        /\ result.netGainLoss = ResultNetFormula
        /\ RLt(R0, ResultInvestment) => result.roi = ResultRoiFormula
        /\ RLe(ResultInvestment, R0) => result.roi = R0
        /\ getSafeValue(data.purchasePrice) = 0 => ZeroPriceResult

\* C6 witness: a return with a down payment, payments made and a non-zero roi
C6_Witness ==
    /\ Returned
    /\ RLt(R0, result.downPaymentAmount)
    /\ RLt(R0, result.totalEMIPaid)
    /\ RLt(R0, ResultInvestment)
    /\ result.roi # R0

\* C7: a call of calculateMetricsForPrice with the scenario and price of an
\* earlier call returns the same breakdown, whatever calls came in between:
\* the sweep's call at the selected price returns what the call of line 519
\* returned, and the sweep entry of the selected price carries its figures.
C7_SameScenarioSameOutput ==
    /\ (Returned /\ phase = "sweep" /\ targetExitPrice = data.selectedExitPrice)
          => result = detailedBreakdown
    /\ \A i \in SweepRows :
          multipleScenarios[i].isSelected =>
             /\ multipleScenarios[i].saleValue = detailedBreakdown.saleValue
             /\ multipleScenarios[i].netProfit = detailedBreakdown.netGainLoss
             /\ multipleScenarios[i].roi = detailedBreakdown.roi
             /\ multipleScenarios[i].leftoverCash = detailedBreakdown.leftoverCash

\* C7 witness: the selected price is evaluated again after the evaluation of
\* another price, with a ledger and a schedule that are not empty
C7_Witness ==
    /\ Returned /\ phase = "sweep" /\ targetExitPrice = data.selectedExitPrice
    /\ priceIdx > 1
    /\ Len(result.monthlyLedger) > 1
    /\ Len(result.idcSchedule) > 1
    /\ result = detailedBreakdown

EmiContract(emi, principal, annualRate, years) ==
    /\ RLe(R0, emi)
    /\ (RLe(principal, R0) \/ getSafeValue(years) <= 0) => emi = R0
    /\ (getSafeValue(annualRate) = 0 /\ RLt(R0, principal) /\ getSafeValue(years) > 0)
          => emi = RDiv(principal, R(getSafeValue(years) * 12))

\* C8: emi(principal, rate, term) >= 0; it is 0 whenever principal <= 0 or
\* term <= 0; and for rate = 0 with principal > 0 and term > 0 it is
\* principal / (term * 12).  Read on the three EMIs an evaluation returns.
C8_EmiContract ==
    Returned =>
        /\ EmiContract(result.homeLoanEMI, result.homeLoanAmount,
                       assumptions.homeLoanRate, assumptions.homeLoanTerm)
        /\ EmiContract(result.personalLoan1EMI, result.personalLoan1Amount,
                       assumptions.personalLoan1Rate, assumptions.personalLoan1Term)
        /\ EmiContract(result.personalLoan2EMI, result.personalLoan2Amount,
                       assumptions.personalLoan2Rate, assumptions.personalLoan2Term)

\* the start month as the claim words it, from the request's own fields
StatedStartMonth ==
    IF data.assumptions.homeLoanStartMode = "manual"
    THEN getSafeValue(data.assumptions.homeLoanStartMonth)
    ELSE fundingEndMonth + getSafeValue(data.assumptions.homeLoanStartMonth) + 1

\* C9: the home-loan start month is the user-entered value in manual mode and
\* fundingEndMonth + userOffset + 1 in default mode; the IDC cutoff month is
\* the start month - 1; a ledger row is in full EMI exactly when its month >=
\* the start month, so no row after a full-EMI row is a pre-EMI row.
C9_StartMonthAndPhase ==
    /\ \A i \in Rows :
          monthlyLedger[i].isFullEMI <=> (monthlyLedger[i].month >= StatedStartMonth)
    /\ \A i, j \in Rows :
          (i < j /\ monthlyLedger[i].isFullEMI) => monthlyLedger[j].isFullEMI
    /\ Returned =>
          /\ result.homeLoanStartMonth = StatedStartMonth
          /\ result.idcReport.cutoffMonth = StatedStartMonth - 1

\* C9 witness: a default-mode ledger that passed from pre-EMI to full EMI
C9_Witness ==
    /\ Returned
    /\ data.assumptions.homeLoanStartMode = "default"
    /\ Len(result.monthlyLedger) >= 3
    /\ ~result.monthlyLedger[1].isFullEMI
    /\ result.monthlyLedger[Len(result.monthlyLedger) - 1].isFullEMI
    /\ result.monthlyLedger[Len(result.monthlyLedger)].isFullEMI

\* C10: in every full-EMI row the home-loan payment is the home-loan EMI and
\* hlComponent = interestPart + principalPart; and the balance carried into
\* the next month is max(0, balance - principalPart), which is the balance the
\* row records.
C10_FullEmiSplit ==
    /\ \A i \in Rows :
          monthlyLedger[i].isFullEMI =>
             /\ monthlyLedger[i].hlComponent = homeLoanEMI
             /\ monthlyLedger[i].hlComponent =
                   RAdd(monthlyLedger[i].interestPart, monthlyLedger[i].principalPart)
    /\ (pc = "ledger" /\ Len(monthlyLedger) > 0
           /\ monthlyLedger[Len(monthlyLedger)].isFullEMI)
          => outBal_Ledger = monthlyLedger[Len(monthlyLedger)].outstandingBalance

\* the sum of hlComponent over the pre-EMI rows of a ledger
PreEmiPaid(ledger) ==
    SumOver([i \in 1..Len(ledger) |->
                IF ledger[i].isFullEMI THEN R0 ELSE ledger[i].hlComponent],
            Len(ledger))
\* a month's interest on a balance at the request's home-loan rate
StatedMonthlyInterest(balance) ==
    RDiv(RMul(balance, Norm(getSafeValue(data.assumptions.homeLoanRate), 100)), R(12))
ManualMode == data.assumptions.homeLoanStartMode = "manual"

\* C11: in every pre-EMI row, in default mode the home-loan payment is that
\* month's interest on the outstanding disbursed balance, the balance equals
\* the cumulative disbursement, and the payment is added to the IDC total, so
\* totalIDC is the sum of hlComponent over the pre-EMI rows; in manual mode the
\* payment is 0 and nothing is added to the IDC total.
C11_PreEmiRows ==
    /\ \A i \in Rows :
          ~monthlyLedger[i].isFullEMI =>
             IF ManualMode
             THEN monthlyLedger[i].hlComponent = R0
             ELSE /\ monthlyLedger[i].outstandingBalance
                        = monthlyLedger[i].cumulativeDisbursement
                  /\ monthlyLedger[i].hlComponent
                        = StatedMonthlyInterest(monthlyLedger[i].outstandingBalance)
                  /\ monthlyLedger[i].hlComponent = monthlyLedger[i].interestPart
    /\ runningTotalIDC = (IF ManualMode THEN R0 ELSE PreEmiPaid(monthlyLedger))
    /\ Returned =>
          /\ result.totalIDC = PreEmiPaid(result.monthlyLedger)
          /\ ManualMode => result.totalIDC = R0

\* C11 witness: a default-mode evaluation that paid interest in two pre-EMI
\* months on different balances
C11_Witness ==
    /\ Returned /\ ~ManualMode
    /\ RLt(R0, result.totalIDC)
    /\ \E i, j \in ResultRows :
          /\ i < j
          /\ ~result.monthlyLedger[j].isFullEMI
          /\ RLt(R0, result.monthlyLedger[i].hlComponent)
          /\ RLt(result.monthlyLedger[i].hlComponent, result.monthlyLedger[j].hlComponent)

ReportRows == 1..Len(result.idcReport.schedule)

\* C12: in the IDC report each slab row has duration = max(0, cutoffMonth -
\* releaseMonth + 1), monthlyInterest = amount * annualRate / 1200 and
\* totalCostForSlab = monthlyInterest * duration, and the report's grand total
\* interest is the sum of totalCostForSlab over the slabs of its schedule.
C12_IdcReport ==
    Returned =>
        /\ \A i \in ReportRows :
              LET row == result.idcReport.schedule[i] IN
              /\ row.duration
                   = Max(0, result.idcReport.cutoffMonth - row.releaseMonth + 1)
              /\ row.monthlyInterest = StatedMonthlyInterest(row.amount)
              /\ row.totalCostForSlab = RMul(row.monthlyInterest, R(row.duration))
        /\ result.idcReport.grandTotalInterest
             = SumOver([i \in ReportRows |-> result.idcReport.schedule[i].totalCostForSlab],
                       Len(result.idcReport.schedule))

\* the slab count the scheduler is stated to produce
StatedSlabCount ==
    Max(1, FloorDiv(fundingEndMonth - startMonth, interval) + 1)
StatedShare == RDiv(homeLoanAmount, R(StatedSlabCount))
\* slabs are numbered in release order, released every interval from the
\* start month, and all but the final one carry the equal share
SlabsInStep ==
    \A i \in 1..Len(idcSchedule) :
        /\ idcSchedule[i].slabNo = i
        /\ idcSchedule[i].releaseMonth = startMonth + (i - 1) * interval
        /\ i < Len(idcSchedule) => idcSchedule[i].amount = StatedShare

Answered ==
    /\ pc = "done"
    /\ detailedBreakdown # NoBreakdown
    /\ Len(multipleScenarios) = Len(allPrices)

\* the most rows the ledger loop writes
MaxRows == Max(0, possessionMonths) + 1
\* the most steps one evaluation takes: entry, the slab loop and its exit,
\* the ledger loop and its exit, the result and the return
StepsPerCall == StatedSlabCount + MaxRows + 5
\* the most steps a request still takes when it is at position p of phase ph
\* with sweep index idx, slabs slabs scheduled and rows ledger rows written,
\* of calls evaluations in the sweep, each of perCall steps at most
StepsLeftAt(p, ph, idx, slabs, rows, perCall, maxRows, calls) ==
    LET callsAfter == IF ph = "detail" THEN calls ELSE calls - idx
        inCall == CASE p = "call" -> perCall
                    [] p = "slabs" -> perCall - 1 - slabs
                    [] p = "ledger" -> maxRows + 3 - rows
                    [] p = "finish" -> 2
                    [] OTHER -> 1
    IN  IF p = "done" THEN 0 ELSE callsAfter * perCall + inCall
StepsLeft ==
    StepsLeftAt(pc, phase, priceIdx, Len(idcSchedule), Len(monthlyLedger),
                StepsPerCall, MaxRows, Len(allPrices))
\* a step leaves strictly fewer steps to take; the scenario, and so the three
\* counts read from it, is the same before and after the step
FewerStepsLeft ==
    LET after == StepsLeftAt(pc', phase', priceIdx', Len(idcSchedule'),
                             Len(monthlyLedger'), StepsPerCall, MaxRows,
                             Len(allPrices))
    IN  after < StepsLeft /\ after >= 0

\* C14: for every scenario of finite or missing numeric fields (zero or
\* negative disbursement interval, start month after the funding end month,
\* zero possession month, zero loan amounts included) the slab loop runs at
\* most max(1, floor((fundingEnd - start) / interval) + 1) times and the
\* ledger loop at most possessionMonths + 1 times, every step leaves strictly
\* fewer steps to take out of a finite count (so no run is infinite), and the
\* request ends with the breakdown and the whole sweep returned.
C14_Terminates ==
    /\ [](Len(idcSchedule) <= StatedSlabCount)
    /\ [](Len(monthlyLedger) <= MaxRows)
    /\ [](pc = "done" => Answered)
    /\ [][FewerStepsLeft]_vars

\* C14 witness: a request answered although its disbursement interval is
\* negative and its start month is after the funding end month
C14_Witness ==
    /\ Answered
    /\ hasHomeLoan
    /\ interval < 0
    /\ startMonth > fundingEndMonth
    /\ Len(detailedBreakdown.idcSchedule) = 1

\* the rows of the ledger whose month is the holding period
HeldRows == {i \in Rows : monthlyLedger[i].month = totalHoldingMonths}
\* the balance the exit computation is stated to take from the ledger
StatedExitBalance ==
    IF HeldRows # {}
    THEN monthlyLedger[CHOOSE i \in HeldRows : TRUE].outstandingBalance
    ELSE IF Len(monthlyLedger) > 0
         THEN monthlyLedger[Len(monthlyLedger)].outstandingBalance
         ELSE R0
StatedPaid(upTo) ==
    SumOver([i \in Rows |-> monthlyLedger[i].hlComponent], upTo)

\* C15: once the ledger is complete, the home-loan outstanding balance of the
\* exit computation is the recorded outstandingBalance of the ledger row whose
\* month is the holding period in months when that row exists (holding period
\* <= possession month), otherwise that of the last row (month = possession),
\* and 0 when the ledger is empty; the home-loan amount paid is the sum of
\* hlComponent over all the ledger rows, months 0..possession, whatever the
\* holding period is; and the returned totalLoanOutstanding and
\* homeLoanEMIPaid carry these two figures.
C15_ExitFiguresFromLedger ==
    /\ pc = "finish" =>
          /\ homeLoanOutstanding = StatedExitBalance
          /\ totalHLPaid_Ledger = StatedPaid(Len(monthlyLedger))
          /\ HeldRows # {} <=>
               (Len(monthlyLedger) > 0 /\ totalHoldingMonths <= possessionMonths)
          /\ Len(monthlyLedger) > 0 =>
               monthlyLedger[Len(monthlyLedger)].month = possessionMonths
    /\ Returned =>
          /\ result.monthlyLedger = monthlyLedger
          /\ result.totalLoanOutstanding =
               RAdd(RAdd(StatedExitBalance, personalLoan1Outstanding),
                    personalLoan2Outstanding)
          /\ result.homeLoanEMIPaid = StatedPaid(Len(monthlyLedger))

\* C15 witness: the holding period ends before possession, the balance of its
\* row differs from the last row's, and payments were made after it
C15_Witness ==
    /\ Returned
    /\ HeldRows # {}
    /\ totalHoldingMonths < possessionMonths
    /\ StatedExitBalance # monthlyLedger[Len(monthlyLedger)].outstandingBalance
    /\ RLt(StatedPaid(totalHoldingMonths + 1), result.homeLoanEMIPaid)

=============================================================================
